---- MODULE Spec2Model ----
(***************************************************************************)
(* Role-transition state machine of the josefine Raft node.                *)
(*                                                                         *)
(* The repository carries two generations of the candidate code:           *)
(*   josefine-raft/src/{raft,follower,candidate}.rs   (build = "raft")     *)
(*   src/raft/{raft,candidate}.rs                     (build = "root")     *)
(* follower.rs exists once and is shared by both builds.  election.rs,     *)
(* leader.rs, rpc.rs and progress.rs are not part of the sources; what the *)
(* model needs of them is taken from the written specification.            *)
(***************************************************************************)
EXTENDS Integers, Sequences, FiniteSets, TLC

\* ---- bounds of the model ----
NumNodes == 3
MaxTerm == 2
MaxLog == 1
MaxIndex == 2
MaxNet == 2
MaxCluster == 3
MaxReq == 4
NumConns == 2
MaxCorr == 2

Nodes == 1..NumNodes
Terms == 0..MaxTerm
\* Option<NodeId>::None
None == 0

VARIABLES
    build,          \* which generation of candidate.rs / raft.rs is linked
    role,           \* RaftHandle variant of every node
    current_term,   \* State.current_term
    voted_for,      \* State.voted_for (None = 0)
    leader_id,      \* Follower.leader_id (None = 0)
    election_time,  \* State.election_time
    commit_index,   \* State.commit_index
    last_applied,   \* State.last_applied
    progress,       \* Leader.progress (the ids it holds a cursor for)
    votes,          \* Candidate.election.votes / Candidate.votes
    log,            \* MemoryIo.entries
    cluster,        \* Raft.cluster (Vec<Node>) / Raft.nodes (HashMap)
    panicked,       \* the node's apply unwound in unimplemented!()
    net,            \* commands in flight between nodes
    reply,          \* what the last step handed to the rpc layer
    last            \* the command the driver applied in the last step

\* ---- src/kafka/tcp.rs: send_messages ----
VARIABLES
    rx,             \* requests queued in the channel rx (correlation ids)
    issued,         \* how many requests the callers have queued
    write,          \* where the write task stands
    correlation_id, \* the write task's local correlation_id
    stream_out,     \* requests written to the stream, not yet answered
    stream_in,      \* responses on the stream, not yet read
    cbs,            \* keys of the map cbs
    read,           \* where the read task stands
    answered        \* callbacks that were sent their response

kafkaVars == <<rx, issued, write, correlation_id, stream_out, stream_in, cbs,
               read, answered>>

\* ---- src/broker/tcp.rs: stream_messages, one instance per connection ----
VARIABLES
    in_tx,          \* (message, cb_tx) pairs queued for the broker
    conn_in,        \* requests on the connection, not yet read
    conn_at,        \* where the connection's stream_messages stands
    header,         \* header.correlation_id of the request in hand
    cb_rx,          \* state of the oneshot channel of the request in hand
    conn_out,       \* correlation ids of the response headers written
    taken           \* correlation ids of the requests read, in order

brokerVars == <<in_tx, conn_in, conn_at, header, cb_rx, conn_out, taken>>

tcpVars == <<kafkaVars, brokerVars>>

vars == <<build, role, current_term, voted_for, leader_id, election_time,
          commit_index, last_applied, progress, votes, log,
          cluster, panicked, net, reply, last, tcpVars>>

\* State.commit_index, State.last_applied: no handler assigns them
volatile == <<commit_index, last_applied>>

nodeVars == <<role, current_term, voted_for, leader_id, election_time,
              volatile, progress, votes, log, panicked>>

Range(s) == {s[i] : i \in 1..Len(s)}

Conns == 1..NumConns
CorrIds == 1..MaxCorr

\* send_messages before its tasks run: cbs is Default::default()
InitKafka ==
    /\ rx = <<>>
    /\ issued = 0
    /\ write = "recv"
    /\ correlation_id = 0
    /\ stream_out = <<>>
    /\ stream_in = <<>>
    /\ cbs = {}
    /\ read = "try_next"
    /\ answered = {}

\* stream_messages of every accepted connection before its first read
InitBroker ==
    /\ in_tx = <<>>
    /\ conn_in = [c \in Conns |-> <<>>]
    /\ conn_at = [c \in Conns |-> "try_next"]
    /\ header = [c \in Conns |-> 0]
    /\ cb_rx = [c \in Conns |-> "none"]
    /\ conn_out = [c \in Conns |-> <<>>]
    /\ taken = [c \in Conns |-> <<>>]

\* ---- commands on the wire (raft.rs Command) ----
Command(t, tm, f, d, g, es) ==
    [mtype |-> t, term |-> tm, from |-> f, to |-> d, granted |-> g,
     entries |-> es, last_log_index |-> 0, last_log_term |-> 0,
     prev_log_index |-> 0, prev_log_term |-> 0, leader_commit |-> 0]

\* Entry { term, index, data }
Entry(t, i) == [term |-> t, index |-> i]

LastIndex(l) == IF Len(l) = 0 THEN 0 ELSE l[Len(l)].index
LastTerm(l) == IF Len(l) = 0 THEN 0 ELSE l[Len(l)].term

\* ---- election.rs (not in the sources; specification 4.3 and glossary) ----
ElectionNew == [v \in Nodes |-> "none"]

quorum(n) == (n \div 2) + 1

\* Variant of the tally's insert that keeps the first answer of a voter
\* (entry(id).or_insert(granted)).
voteFirst(e, id, granted) ==
    IF e[id] # "none" THEN e
    ELSE [e EXCEPT ![id] = IF granted THEN "granted" ELSE "denied"]

vote(e, id, granted) ==
    [e EXCEPT ![id] = IF granted THEN "granted" ELSE "denied"]

Granted(e) == Cardinality({v \in Nodes : e[v] = "granted"})
Denied(e) == Cardinality({v \in Nodes : e[v] = "denied"})

election_status(e, n) ==
    IF Granted(e) >= quorum(n) THEN "Elected"
    ELSE IF Denied(e) >= quorum(n) THEN "Defeated"
    ELSE "Voting"

\* ---- src/raft/candidate.rs ----
majority(total) == IF total = 1 THEN 0 ELSE (total \div 2) + 1

\* ---- rpc layer ----
\* Rpc::respond_vote(&state, to, granted)
respond_vote(n, d, g) == Command("VoteResponse", current_term[n], n, d, g, <<>>)

\* Rpc::ping(node_id)
ping(n, d) == Command("Ping", 0, n, d, FALSE, <<>>)

\* ---- what the driver applied last (kept for the properties) ----
\* mtype of the command; the term of an Append; term and from of a
\* Heartbeat, so that a second application of the same Heartbeat can be
\* told (again); the role the node was in when the command arrived.
NoCommand ==
    [mtype |-> "None", term |-> 0, from |-> 0, role |-> "None", again |-> FALSE]

Cmd(k) == [mtype |-> k, term |-> 0, from |-> 0]

Applied(m) ==
    CASE m.mtype = "Heartbeat" ->
            [mtype |-> m.mtype, term |-> m.term, from |-> m.from]
      [] m.mtype = "Append" -> [Cmd(m.mtype) EXCEPT !.term = m.term]
      [] OTHER -> Cmd(m.mtype)

\* ---- Raft::new (follower.rs) ----
InitNode ==
    /\ role = [n \in Nodes |-> "Follower"]
    /\ current_term = [n \in Nodes |-> 0]
    /\ voted_for = [n \in Nodes |-> None]
    /\ leader_id = [n \in Nodes |-> None]
    /\ election_time = [n \in Nodes |-> 0]
    /\ commit_index = [n \in Nodes |-> 0]
    /\ last_applied = [n \in Nodes |-> 0]
    /\ progress = [n \in Nodes |-> {}]
    /\ votes = [n \in Nodes |-> ElectionNew]
    /\ log = [n \in Nodes |-> <<>>]
    /\ panicked = [n \in Nodes |-> FALSE]
    /\ net = {}
    /\ reply = {}
    /\ last = NoCommand

Init ==
    /\ build \in {"raft", "root"}
    /\ InitNode
    /\ InitKafka
    /\ InitBroker
    /\ cluster = [n \in Nodes |-> <<n>>]

\* ---- raft.rs: Raft::add_node_to_cluster ----
\* impl<S: Role, I: Io, R: Rpc> Raft<S, I, R>: callable in every role.
\* josefine-raft: self.nodes.write().unwrap().insert(node.id, node); ping
add_node_to_cluster(n, p) ==
    /\ build = "raft"
    /\ ~panicked[n]
    /\ cluster' = [cluster EXCEPT ![n] =
                      IF p \in Range(@) THEN @ ELSE Append(@, p)]
    /\ reply' = {ping(n, p)}
    /\ last' = NoCommand
    /\ UNCHANGED <<build, nodeVars, net, tcpVars>>

\* src/raft: self.cluster.push(node)
add_node_to_cluster_root(n, p) ==
    /\ build = "root"
    /\ ~panicked[n]
    /\ Len(cluster[n]) < MaxCluster
    /\ cluster' = [cluster EXCEPT ![n] = Append(@, p)]
    /\ reply' = {}
    /\ last' = NoCommand
    /\ UNCHANGED <<build, nodeVars, net, tcpVars>>

\* ---- role conversions ----
\* A conversion moves id, state, cluster, io and rpc over and replaces the
\* role record; the fields of the old role record are dropped.

\* candidate.rs: From<Raft<Candidate>> for Raft<Follower>
CandidateToFollower(n) ==
    /\ role' = [role EXCEPT ![n] = "Follower"]
    /\ leader_id' = [leader_id EXCEPT ![n] = None]
    /\ progress' = progress
    /\ votes' = [votes EXCEPT ![n] = ElectionNew]

\* progress.rs (not in the sources; specification 4.4, entry actions):
\* a cursor for every peer p # self
ReplicationProgressNew(n, ns) == Range(ns) \ {n}

\* candidate.rs: From<Raft<Candidate>> for Raft<Leader>; the Leader of
\* src/raft is `Leader {}` and holds no progress.
CandidateToLeader(n) ==
    /\ role' = [role EXCEPT ![n] = "Leader"]
    /\ leader_id' = [leader_id EXCEPT ![n] = None]
    /\ progress' = [progress EXCEPT ![n] =
                       IF build = "raft"
                       THEN ReplicationProgressNew(n, cluster[n])
                       ELSE {}]
    /\ votes' = [votes EXCEPT ![n] = ElectionNew]

\* Ok(RaftHandle::Candidate(self)) with the tally e
CandidateWith(n, e) ==
    /\ role' = [role EXCEPT ![n] = "Candidate"]
    /\ leader_id' = [leader_id EXCEPT ![n] = None]
    /\ progress' = progress
    /\ votes' = [votes EXCEPT ![n] = e]

\* Variant of apply(VoteResponse) in which a defeated Candidate keeps
\* waiting for votes.
CandidateVoteWaits(n, e, id, granted) ==
    LET e1 == vote(e, id, granted)
        st == election_status(e1, Len(cluster[n]))
    IN  CASE st = "Elected" -> CandidateToLeader(n)
          [] st = "Voting" -> CandidateWith(n, e1)
          [] st = "Defeated" -> CandidateWith(n, e1)

\* ---- josefine-raft/src/candidate.rs: apply(VoteResponse) ----
\* e is the tally before the response is counted.
CandidateVote(n, e, id, granted) ==
    LET e1 == vote(e, id, granted)
        st == election_status(e1, Len(cluster[n]))
    IN  CASE st = "Elected" -> CandidateToLeader(n)
          [] st = "Voting" -> CandidateWith(n, e1)
          [] st = "Defeated" -> CandidateToFollower(n)

\* ---- src/raft/candidate.rs: apply(Vote) ----
CountVotes(e) == Cardinality({v \in Nodes : e[v] = "granted"})

CandidateVoteRoot(n, e, id, voted) ==
    LET e1 == vote(e, id, voted)
    IN  IF CountVotes(e1) > majority(Len(cluster[n]))
        THEN CandidateToLeader(n)
        ELSE CandidateWith(n, e1)

\* ---- josefine-raft/src/candidate.rs: seek_election ----
\* The closing self.apply(VoteResponse { candidate_id: self.id, granted: true })
\* runs on the tally e the conversion has just built.
seek_election(n, e) ==
    /\ current_term[n] < MaxTerm
    /\ voted_for' = [voted_for EXCEPT ![n] = n]
    /\ current_term' = [current_term EXCEPT ![n] = @ + 1]
    /\ CandidateVote(n, e, n, TRUE)

\* ---- src/raft/candidate.rs: seek_election ----
seek_election_root(n, e) ==
    /\ voted_for' = [voted_for EXCEPT ![n] = n]
    /\ current_term' = current_term
    /\ CandidateVoteRoot(n, e, n, TRUE)

\* Variant of apply(Timeout) whose conversion builds a tally that already
\* holds an answer (false) for every node of the cluster.
FollowerTimeoutPrefilled(n) ==
    /\ role[n] = "Follower"
    /\ ~panicked[n]
    /\ LET e == [v \in Nodes |->
                   IF v \in Range(cluster[n]) THEN "denied" ELSE "none"]
       IN  IF build = "raft"
           THEN seek_election(n, e)
           ELSE seek_election_root(n, e)
    /\ reply' = {}
    /\ UNCHANGED <<build, election_time, volatile, log, cluster, panicked>>

\* ---- follower.rs: apply(Timeout) ----
\* From<Raft<Follower>> for Raft<Candidate> builds Election::new(&cluster),
\* then seek_election runs on the new Candidate.
FollowerTimeout(n) ==
    /\ role[n] = "Follower"
    /\ ~panicked[n]
    /\ IF build = "raft"
       THEN seek_election(n, ElectionNew)
       ELSE seek_election_root(n, ElectionNew)
    /\ reply' = {}
    /\ UNCHANGED <<build, election_time, volatile, log, cluster, panicked>>

\* Variant of apply(Append) that takes leader_commit over as commit_index
\* without capping it at the end of the log.
FollowerAppendCommits(n, m) ==
    /\ role[n] = "Follower"
    /\ ~panicked[n]
    /\ m.mtype = "Append"
    /\ Len(log[n]) + Len(m.entries) <= MaxLog
    /\ election_time' = [election_time EXCEPT ![n] = 0]
    /\ leader_id' = [leader_id EXCEPT ![n] = m.from]
    /\ log' = [log EXCEPT ![n] = @ \o m.entries]
    /\ commit_index' = [commit_index EXCEPT ![n] = m.leader_commit]
    /\ reply' = {}
    /\ UNCHANGED <<build, role, current_term, voted_for, last_applied, progress,
                   votes, cluster, panicked>>

\* ---- follower.rs: apply(Append) ----
FollowerAppend(n, m) ==
    /\ role[n] = "Follower"
    /\ ~panicked[n]
    /\ m.mtype = "Append"
    /\ Len(log[n]) + Len(m.entries) <= MaxLog
    /\ election_time' = [election_time EXCEPT ![n] = 0]
    /\ leader_id' = [leader_id EXCEPT ![n] = m.from]
    /\ log' = [log EXCEPT ![n] = @ \o m.entries]
    /\ reply' = {}
    /\ UNCHANGED <<build, role, current_term, voted_for, volatile, progress,
                   votes, cluster, panicked>>

\* Variant of apply(Heartbeat) that counts every heartbeat as a new term.
FollowerHeartbeatCounts(n, m) ==
    /\ role[n] = "Follower"
    /\ ~panicked[n]
    /\ m.mtype = "Heartbeat"
    /\ current_term[n] < MaxTerm
    /\ current_term' = [current_term EXCEPT ![n] = @ + 1]
    /\ election_time' = [election_time EXCEPT ![n] = 0]
    /\ leader_id' = [leader_id EXCEPT ![n] = m.from]
    /\ \E p \in BOOLEAN : panicked' = [panicked EXCEPT ![n] = p]
    /\ reply' = {}
    /\ UNCHANGED <<build, role, voted_for, volatile, progress, votes, log,
                   cluster>>

\* ---- follower.rs: apply(Heartbeat) ----
\* self.io.heartbeat(from): MemoryIo::heartbeat is unimplemented!(), another
\* Io returns; either may be linked.
FollowerHeartbeat(n, m) ==
    /\ role[n] = "Follower"
    /\ ~panicked[n]
    /\ m.mtype = "Heartbeat"
    /\ election_time' = [election_time EXCEPT ![n] = 0]
    /\ leader_id' = [leader_id EXCEPT ![n] = m.from]
    /\ \E p \in BOOLEAN : panicked' = [panicked EXCEPT ![n] = p]
    /\ reply' = {}
    /\ UNCHANGED <<build, role, current_term, voted_for, volatile, progress,
                   votes, log, cluster>>

\* ---- follower.rs: apply(VoteRequest) ----
FollowerVoteRequest(n, m) ==
    /\ role[n] = "Follower"
    /\ ~panicked[n]
    /\ m.mtype = "VoteRequest"
    /\ reply' = {respond_vote(n, m.from, TRUE)}
    /\ UNCHANGED <<build, nodeVars, cluster>>

\* ---- follower.rs: apply(Ping(node_id)) ----
FollowerPing(n, p) ==
    /\ role[n] = "Follower"
    /\ ~panicked[n]
    /\ reply' = {ping(n, p)}
    /\ UNCHANGED <<build, nodeVars, cluster>>

\* ---- follower.rs: apply, the `_` arm ----
\* Tick, AddNode, Noop from the driver
FollowerNoop(n) ==
    /\ role[n] = "Follower"
    /\ ~panicked[n]
    /\ reply' = {}
    /\ UNCHANGED <<build, nodeVars, cluster>>

\* Variant of the `_` arm that adopts the higher term of a late
\* VoteResponse.
FollowerVoteResponseAdopts(n, m) ==
    /\ role[n] = "Follower"
    /\ ~panicked[n]
    /\ m.mtype = "VoteResponse"
    /\ IF m.term > current_term[n]
       THEN /\ current_term' = [current_term EXCEPT ![n] = m.term]
            /\ voted_for' = [voted_for EXCEPT ![n] = None]
       ELSE UNCHANGED <<current_term, voted_for>>
    /\ reply' = {}
    /\ UNCHANGED <<build, role, leader_id, election_time, volatile, progress,
                   votes, log, panicked, cluster>>

\* VoteResponse from a peer
FollowerVoteResponse(n, m) ==
    /\ role[n] = "Follower"
    /\ ~panicked[n]
    /\ m.mtype = "VoteResponse"
    /\ reply' = {}
    /\ UNCHANGED <<build, nodeVars, cluster>>

\* Variant of apply(Tick) that treats the tick as an expired election
\* timer and opens the next term.
CandidateTickElects(n) ==
    /\ build = "raft"
    /\ role[n] = "Candidate"
    /\ ~panicked[n]
    /\ current_term[n] < MaxTerm
    /\ current_term' = [current_term EXCEPT ![n] = @ + 1]
    /\ reply' = {}
    /\ UNCHANGED <<build, role, voted_for, leader_id, election_time, volatile,
                   progress, votes, log, panicked, cluster>>

\* ---- candidate.rs: apply(Tick) (josefine-raft only) ----
CandidateTick(n) ==
    /\ build = "raft"
    /\ role[n] = "Candidate"
    /\ ~panicked[n]
    /\ reply' = {}
    /\ UNCHANGED <<build, nodeVars, cluster>>

\* ---- candidate.rs: apply, the `_` arm: Timeout, Noop from the driver ----
CandidateTimeout(n) ==
    /\ role[n] = "Candidate"
    /\ ~panicked[n]
    /\ reply' = {}
    /\ UNCHANGED <<build, nodeVars, cluster>>

\* ---- candidate.rs: apply(VoteRequest) ----
\* josefine-raft answers false; src/raft has no arm for RequestVote (`_`).
CandidateVoteRequest(n, m) ==
    /\ role[n] = "Candidate"
    /\ ~panicked[n]
    /\ m.mtype = "VoteRequest"
    /\ reply' = IF build = "raft" THEN {respond_vote(n, m.from, FALSE)} ELSE {}
    /\ UNCHANGED <<build, nodeVars, cluster>>

\* Variant of apply(VoteResponse) whose conversions build the new handle
\* with State::default() in place of the Candidate's state.
CandidateVoteResponseResets(n, m) ==
    /\ role[n] = "Candidate"
    /\ ~panicked[n]
    /\ m.mtype = "VoteResponse"
    /\ IF build = "raft"
       THEN CandidateVote(n, votes[n], m.from, m.granted)
       ELSE CandidateVoteRoot(n, votes[n], m.from, m.granted)
    /\ IF role'[n] # "Candidate"
       THEN /\ current_term' = [current_term EXCEPT ![n] = 0]
            /\ voted_for' = [voted_for EXCEPT ![n] = None]
       ELSE UNCHANGED <<current_term, voted_for>>
    /\ reply' = {}
    /\ UNCHANGED <<build, election_time, volatile, log, cluster, panicked>>

\* ---- candidate.rs: apply(VoteResponse) / apply(Vote) ----
CandidateVoteResponse(n, m) ==
    /\ role[n] = "Candidate"
    /\ ~panicked[n]
    /\ m.mtype = "VoteResponse"
    /\ IF build = "raft"
       THEN CandidateVote(n, votes[n], m.from, m.granted)
       ELSE CandidateVoteRoot(n, votes[n], m.from, m.granted)
    /\ reply' = {}
    /\ UNCHANGED <<build, current_term, voted_for, election_time, volatile,
                   log, cluster, panicked>>

\* ---- candidate.rs: apply(AppendEntries) / apply(Append) ----
\* josefine-raft checks term >= current_term and appends through MemoryIo;
\* src/raft converts unconditionally and its MemoryIO::append is
\* unimplemented!(), another IO appends.
CandidateAppendEntries(n, m) ==
    /\ role[n] = "Candidate"
    /\ ~panicked[n]
    /\ m.mtype = "Append"
    /\ Len(log[n]) + Len(m.entries) <= MaxLog
    /\ IF build = "raft"
       THEN /\ IF m.term >= current_term[n]
               THEN /\ CandidateToFollower(n)
                    /\ log' = [log EXCEPT ![n] = @ \o m.entries]
               ELSE UNCHANGED <<role, leader_id, progress, votes, log>>
            /\ UNCHANGED panicked
       ELSE /\ CandidateToFollower(n)
            /\ \E p \in BOOLEAN :
                 /\ log' = [log EXCEPT ![n] = IF p THEN @ ELSE @ \o m.entries]
                 /\ panicked' = [panicked EXCEPT ![n] = p]
    /\ reply' = {}
    /\ UNCHANGED <<build, current_term, voted_for, election_time, volatile,
                   cluster>>

\* Variant of apply(Heartbeat) that steps down whatever the term of the
\* heartbeat.
CandidateHeartbeatAlways(n, m) ==
    /\ role[n] = "Candidate"
    /\ ~panicked[n]
    /\ m.mtype = "Heartbeat"
    /\ CandidateToFollower(n)
    /\ \E p \in BOOLEAN : panicked' = [panicked EXCEPT ![n] = p]
    /\ reply' = {}
    /\ UNCHANGED <<build, current_term, voted_for, election_time, volatile,
                   log, cluster>>

\* ---- candidate.rs: apply(Heartbeat) ----
CandidateHeartbeat(n, m) ==
    /\ role[n] = "Candidate"
    /\ ~panicked[n]
    /\ m.mtype = "Heartbeat"
    /\ IF build = "raft" /\ m.term < current_term[n]
       THEN UNCHANGED <<role, leader_id, progress, votes, panicked>>
       ELSE /\ CandidateToFollower(n)
            /\ \E p \in BOOLEAN : panicked' = [panicked EXCEPT ![n] = p]
    /\ reply' = {}
    /\ UNCHANGED <<build, current_term, voted_for, election_time, volatile,
                   log, cluster>>

\* ---- raft.rs: Raft::term ----
\* self.role.term(term) resets the election of a Candidate.
term(n, t) ==
    /\ build = "raft"
    /\ ~panicked[n]
    /\ voted_for' = [voted_for EXCEPT ![n] = None]
    /\ current_term' = [current_term EXCEPT ![n] = t]
    /\ votes' = [votes EXCEPT ![n] = ElectionNew]
    /\ reply' = {}
    /\ UNCHANGED <<build, role, leader_id, election_time, volatile, progress,
                   log, cluster, panicked>>

\* ---- one node under its driver: any command may be applied ----
Self == CHOOSE n \in Nodes : \A k \in Nodes : n <= k
Peers == Nodes \ {Self}

EntryBatches ==
    {<<>>} \cup {<<Entry(t, i)>> : t \in Terms, i \in 1..MaxIndex}

VoteRequests ==
    {[Command("VoteRequest", t, f, Self, FALSE, <<>>)
         EXCEPT !.last_log_index = i, !.last_log_term = lt] :
            t \in Terms, f \in Peers, i \in 0..MaxLog, lt \in Terms}

VoteResponses ==
    {Command("VoteResponse", t, f, Self, g, <<>>) :
            t \in Terms, f \in Peers, g \in BOOLEAN}

Appends ==
    {[Command("Append", t, f, Self, FALSE, es)
         EXCEPT !.prev_log_index = pi, !.prev_log_term = pt,
                !.leader_commit = lc] :
            t \in Terms, f \in Peers, es \in EntryBatches,
            pi \in 0..MaxLog, pt \in Terms, lc \in 0..MaxLog}

Heartbeats ==
    {Command("Heartbeat", t, f, Self, FALSE, <<>>) : t \in Terms, f \in Peers}

Inputs == VoteRequests \cup VoteResponses \cup Appends \cup Heartbeats

\* apply(command) on the node under test; the network is not involved.
Driven(m) ==
    /\ last' = [mtype |-> Applied(m).mtype,
                term |-> Applied(m).term,
                from |-> Applied(m).from,
                role |-> role[Self],
                again |-> /\ m.mtype = "Heartbeat"
                          /\ last.mtype = m.mtype
                          /\ last.term = m.term
                          /\ last.from = m.from
                          /\ last.role = role[Self]]
    /\ UNCHANGED <<net, tcpVars>>

Next ==
    \/ \E p \in Nodes : add_node_to_cluster(Self, p)
    \/ \E p \in Nodes : add_node_to_cluster_root(Self, p)
    \/ FollowerTimeout(Self) /\ Driven(Cmd("Timeout"))
    \/ \E m \in Appends : FollowerAppend(Self, m) /\ Driven(m)
    \/ \E m \in Heartbeats : FollowerHeartbeat(Self, m) /\ Driven(m)
    \/ \E m \in VoteRequests : FollowerVoteRequest(Self, m) /\ Driven(m)
    \/ \E m \in VoteResponses : FollowerVoteResponse(Self, m) /\ Driven(m)
    \/ \E p \in Nodes : FollowerPing(Self, p) /\ Driven(Cmd("Ping"))
    \/ \E k \in {"Tick", "AddNode", "Noop"} :
          FollowerNoop(Self) /\ Driven(Cmd(k))
    \/ CandidateTick(Self) /\ Driven(Cmd("Tick"))
    \/ \E k \in {"Timeout", "AddNode", "Noop", "Ping"}
                 \cup (IF build = "root" THEN {"Tick"} ELSE {}) :
          CandidateTimeout(Self) /\ Driven(Cmd(k))
    \/ \E m \in VoteRequests : CandidateVoteRequest(Self, m) /\ Driven(m)
    \/ \E m \in VoteResponses : CandidateVoteResponse(Self, m) /\ Driven(m)
    \/ \E m \in Appends : CandidateAppendEntries(Self, m) /\ Driven(m)
    \/ \E m \in Heartbeats : CandidateHeartbeat(Self, m) /\ Driven(m)

Spec == Init /\ [][Next]_vars

\* The driver also calls Raft::term directly.
NextDirect ==
    \/ Next
    \/ \E t \in Terms :
          term(Self, t) /\ last' = NoCommand /\ UNCHANGED <<net, tcpVars>>

SpecDirect == Init /\ [][NextDirect]_vars

\* ---- a cluster of NumNodes nodes exchanging commands ----
\* Every node has been handed every peer before the first command.
FullCluster(n) ==
    LET RECURSIVE Asc(_, _)
        Asc(k, acc) == IF k > NumNodes THEN acc
                       ELSE Asc(k + 1, IF k = n THEN acc ELSE Append(acc, k))
    IN  Asc(1, <<n>>)

InitCluster ==
    /\ build \in {"raft", "root"}
    /\ InitNode
    /\ InitKafka
    /\ InitBroker
    /\ cluster = [n \in Nodes |-> FullCluster(n)]

\* The command m leaves the network, the handler's replies enter it.
Route(m) ==
    /\ net' = (net \ {m}) \cup reply'
    /\ Cardinality(net') <= MaxNet
    /\ UNCHANGED <<last, tcpVars>>

\* The peers' side of the rpc layer (specification 4.3, 4.4, 6).
\* A Candidate asks every other peer for its vote.
VoteRequest(c, d) ==
    [Command("VoteRequest", current_term[c], c, d, FALSE, <<>>)
        EXCEPT !.last_log_index = LastIndex(log[c]),
               !.last_log_term = LastTerm(log[c])]

Send(m) ==
    /\ m \notin net
    /\ Cardinality(net) < MaxNet
    /\ net' = net \cup {m}
    /\ reply' = {m}
    /\ UNCHANGED <<build, nodeVars, cluster, last, tcpVars>>

RequestVote(c, d) ==
    /\ role[c] = "Candidate"
    /\ ~panicked[c]
    /\ d \in Range(cluster[c]) \ {c}
    /\ Send(VoteRequest(c, d))

\* A Leader asserts its leadership and replicates entries of its term.
LeaderHeartbeat(l, d) ==
    /\ role[l] = "Leader"
    /\ ~panicked[l]
    /\ d \in Range(cluster[l]) \ {l}
    /\ Send(Command("Heartbeat", current_term[l], l, d, FALSE, <<>>))

LeaderAppend(l, d, i) ==
    /\ role[l] = "Leader"
    /\ ~panicked[l]
    /\ d \in Range(cluster[l]) \ {l}
    /\ Send(Command("Append", current_term[l], l, d, FALSE,
                    <<Entry(current_term[l], i)>>))

\* A Leader steps down on a higher term and leaves the command to its
\* Follower handler; anything else addressed to it is dropped.
LeaderReceive(l, m) ==
    /\ role[l] = "Leader"
    /\ ~panicked[l]
    /\ IF m.term > current_term[l]
       THEN /\ role' = [role EXCEPT ![l] = "Follower"]
            /\ current_term' = [current_term EXCEPT ![l] = m.term]
            /\ voted_for' = [voted_for EXCEPT ![l] = None]
            /\ progress' = [progress EXCEPT ![l] = {}]
            /\ net' = net
       ELSE /\ net' = net \ {m}
            /\ UNCHANGED <<role, current_term, voted_for, progress>>
    /\ reply' = {}
    /\ UNCHANGED <<build, leader_id, election_time, volatile, votes, log,
                   cluster, panicked, last, tcpVars>>

NextCluster ==
    \/ \E n \in Nodes : FollowerTimeout(n) /\ UNCHANGED <<net, last, tcpVars>>
    \/ \E m \in net : FollowerAppend(m.to, m) /\ Route(m)
    \/ \E m \in net : FollowerHeartbeat(m.to, m) /\ Route(m)
    \/ \E m \in net : FollowerVoteRequest(m.to, m) /\ Route(m)
    \/ \E m \in net : FollowerVoteResponse(m.to, m) /\ Route(m)
    \/ \E m \in net : CandidateVoteRequest(m.to, m) /\ Route(m)
    \/ \E m \in net : CandidateVoteResponse(m.to, m) /\ Route(m)
    \/ \E m \in net : CandidateAppendEntries(m.to, m) /\ Route(m)
    \/ \E m \in net : CandidateHeartbeat(m.to, m) /\ Route(m)
    \/ \E c \in Nodes, d \in Nodes : RequestVote(c, d)
    \/ \E l \in Nodes, d \in Nodes : LeaderHeartbeat(l, d)
    \/ \E l \in Nodes, d \in Nodes, i \in 1..MaxLog : LeaderAppend(l, d, i)
    \/ \E m \in net : LeaderReceive(m.to, m)

SpecCluster == InitCluster /\ [][NextCluster]_vars

\* ---- an even-sized cluster under fair scheduling ----
\* The largest even number of nodes forms the cluster; the other ids are
\* not started.
Members == 1..(2 * (NumNodes \div 2))

MemberList(n) ==
    LET RECURSIVE Asc(_, _)
        Asc(k, acc) == IF k \notin Members THEN acc
                       ELSE Asc(k + 1, IF k = n THEN acc ELSE Append(acc, k))
    IN  Asc(1, <<n>>)

InitFair ==
    /\ build \in {"raft", "root"}
    /\ InitNode
    /\ InitKafka
    /\ InitBroker
    /\ cluster = [n \in Nodes |-> IF n \in Members THEN MemberList(n) ELSE <<n>>]

\* The election timer of a member fires: Timeout is applied to it.
TimeoutFollower(n) == FollowerTimeout(n) /\ UNCHANGED <<net, last, tcpVars>>
TimeoutCandidate(n) == CandidateTimeout(n) /\ UNCHANGED <<net, last, tcpVars>>

\* A command in flight reaches the handler of its addressee.
Deliver(m) ==
    /\ m \in net
    /\ \/ FollowerAppend(m.to, m) /\ Route(m)
       \/ FollowerHeartbeat(m.to, m) /\ Route(m)
       \/ FollowerVoteRequest(m.to, m) /\ Route(m)
       \/ FollowerVoteResponse(m.to, m) /\ Route(m)
       \/ CandidateVoteRequest(m.to, m) /\ Route(m)
       \/ CandidateVoteResponse(m.to, m) /\ Route(m)
       \/ CandidateAppendEntries(m.to, m) /\ Route(m)
       \/ CandidateHeartbeat(m.to, m) /\ Route(m)
       \/ LeaderReceive(m.to, m)

NextFair ==
    \/ \E n \in Members : TimeoutFollower(n)
    \/ \E n \in Members : TimeoutCandidate(n)
    \/ \E m \in net : Deliver(m)
    \/ \E c \in Members, d \in Members : RequestVote(c, d)
    \/ \E l \in Members, d \in Members : LeaderHeartbeat(l, d)
    \/ \E l \in Members, d \in Members, i \in 1..MaxLog : LeaderAppend(l, d, i)

\* Every command the members can put on the wire.
Wire ==
    {[Command("VoteRequest", t, f, d, FALSE, <<>>)
         EXCEPT !.last_log_index = i, !.last_log_term = lt] :
            t \in Terms, f \in Members, d \in Members,
            i \in 0..MaxLog, lt \in Terms}
    \cup {Command("VoteResponse", t, f, d, g, <<>>) :
            t \in Terms, f \in Members, d \in Members, g \in BOOLEAN}
    \cup {Command("Heartbeat", t, f, d, FALSE, <<>>) :
            t \in Terms, f \in Members, d \in Members}
    \cup {Command("Append", t, f, d, FALSE, <<Entry(t, i)>>) :
            t \in Terms, f \in Members, d \in Members, i \in 1..MaxLog}

\* Every timer fires again and again, every command in flight is handed
\* over, a Candidate keeps asking and a Leader keeps asserting itself.
Fairness ==
    /\ \A n \in Members : WF_vars(TimeoutFollower(n))
    /\ \A n \in Members : WF_vars(TimeoutCandidate(n))
    /\ \A m \in Wire : WF_vars(Deliver(m))
    /\ \A c \in Members, d \in Members : WF_vars(RequestVote(c, d))
    /\ \A l \in Members, d \in Members : WF_vars(LeaderHeartbeat(l, d))

SpecFair == InitFair /\ [][NextFair]_vars /\ Fairness

\* ---- src/kafka/tcp.rs: send_messages, its write and read tasks ----
\* The raft variables play no part in the two tcp modules.
raftVars == <<build, nodeVars, cluster, net, reply, last>>

InitTcp ==
    /\ build = "root"
    /\ InitNode
    /\ InitKafka
    /\ InitBroker
    /\ cluster = [n \in Nodes |-> <<n>>]

\* A caller queues (header, request, cb) on the channel; correlation ids
\* are handed out in sequence. The tasks are spawned, so each runs on
\* after the other has ended.
Request ==
    /\ issued < MaxReq
    /\ issued' = issued + 1
    /\ rx' = Append(rx, issued + 1)
    /\ UNCHANGED <<write, correlation_id, stream_out, stream_in, cbs, read,
                   answered>>

\* write task, line 26-27: rx.recv().await returns the next request
WriteRecv ==
    /\ write = "recv"
    /\ rx # <<>>
    /\ correlation_id' = Head(rx)
    /\ rx' = Tail(rx)
    /\ write' = "send"
    /\ UNCHANGED <<issued, stream_out, stream_in, cbs, read, answered>>

\* write task, line 28-30: stream_out.send((header, req)).await
WriteSend ==
    /\ write = "send"
    /\ stream_out' = Append(stream_out, correlation_id)
    /\ write' = "insert"
    /\ UNCHANGED <<rx, issued, correlation_id, stream_in, cbs, read, answered>>

\* write task, line 31-32: lock cbs and insert the callback. The read task
\* panics holding the lock, which poisons the mutex: lock().unwrap() of the
\* write task then panics as well.
WriteInsert ==
    /\ write = "insert"
    /\ IF read = "panicked"
       THEN /\ write' = "panicked"
            /\ UNCHANGED cbs
       ELSE /\ cbs' = cbs \cup {correlation_id}
            /\ write' = "recv"
    /\ UNCHANGED <<rx, issued, correlation_id, stream_out, stream_in, read,
                   answered>>

\* The server at the other end answers the oldest request it has.
ServerRespond ==
    /\ stream_out # <<>>
    /\ stream_in' = Append(stream_in, Head(stream_out))
    /\ stream_out' = Tail(stream_out)
    /\ UNCHANGED <<rx, issued, write, correlation_id, cbs, read, answered>>

\* read task, line 39-42: a response is decoded, cbs is locked, the
\* callback removed and sent the response; expect() panics when the map
\* has no entry for the correlation id.
ReadResponse ==
    /\ read = "try_next"
    /\ stream_in # <<>>
    /\ stream_in' = Tail(stream_in)
    /\ IF Head(stream_in) \in cbs
       THEN /\ cbs' = cbs \ {Head(stream_in)}
            /\ answered' = answered \cup {Head(stream_in)}
            /\ UNCHANGED read
       ELSE /\ read' = "panicked"
            /\ UNCHANGED <<cbs, answered>>
    /\ UNCHANGED <<rx, issued, write, correlation_id, stream_out>>

NextKafka ==
    \/ Request /\ UNCHANGED <<raftVars, brokerVars>>
    \/ WriteRecv /\ UNCHANGED <<raftVars, brokerVars>>
    \/ WriteSend /\ UNCHANGED <<raftVars, brokerVars>>
    \/ WriteInsert /\ UNCHANGED <<raftVars, brokerVars>>
    \/ ServerRespond /\ UNCHANGED <<raftVars, brokerVars>>
    \/ ReadResponse /\ UNCHANGED <<raftVars, brokerVars>>

SpecKafka == InitTcp /\ [][NextKafka]_vars

\* ---- src/broker/tcp.rs: stream_messages ----
\* q without its i-th element
Without(q, i) == SubSeq(q, 1, i - 1) \o SubSeq(q, i + 1, Len(q))

\* The client writes a request with the correlation id of its choice; it
\* need not wait for the answer to the one before.
ClientSend(c, id) ==
    /\ conn_at[c] # "closed"
    /\ Len(taken[c]) + Len(conn_in[c]) < MaxReq
    /\ conn_in' = [conn_in EXCEPT ![c] = Append(@, id)]
    /\ UNCHANGED <<in_tx, conn_at, header, cb_rx, conn_out, taken>>

\* line 48-50: try_next yields (header, message); a oneshot channel is
\* made and (message, cb_tx) handed to the broker
StreamRead(c) ==
    /\ conn_at[c] = "try_next"
    /\ conn_in[c] # <<>>
    /\ header' = [header EXCEPT ![c] = Head(conn_in[c])]
    /\ conn_in' = [conn_in EXCEPT ![c] = Tail(@)]
    /\ taken' = [taken EXCEPT ![c] = Append(@, Head(conn_in[c]))]
    /\ cb_rx' = [cb_rx EXCEPT ![c] = "pending"]
    /\ in_tx' = Append(in_tx, c)
    /\ conn_at' = [conn_at EXCEPT ![c] = "await"]
    /\ UNCHANGED conn_out

\* The holder of a cb_tx sends the response on it or drops it; the broker
\* may finish its requests in any order.
BrokerAnswer(i, sent) ==
    /\ i \in 1..Len(in_tx)
    /\ cb_rx' = [cb_rx EXCEPT ![in_tx[i]] = IF sent THEN "sent" ELSE "dropped"]
    /\ in_tx' = Without(in_tx, i)
    /\ UNCHANGED <<conn_in, conn_at, header, conn_out, taken>>

\* line 51: cb_rx.await? returns the response, or the error of a dropped
\* sender ends stream_messages
StreamAwait(c) ==
    /\ conn_at[c] = "await"
    /\ cb_rx[c] \in {"sent", "dropped"}
    /\ conn_at' = [conn_at EXCEPT ![c] =
                      IF cb_rx[c] = "sent" THEN "send" ELSE "closed"]
    /\ cb_rx' = [cb_rx EXCEPT ![c] = "none"]
    /\ UNCHANGED <<in_tx, conn_in, header, conn_out, taken>>

\* Variant of line 54-56 that writes ResponseHeader::default() as it is.
StreamSendDefault(c) ==
    /\ conn_at[c] = "send"
    /\ conn_out' = [conn_out EXCEPT ![c] = Append(@, 0)]
    /\ conn_at' = [conn_at EXCEPT ![c] = "try_next"]
    /\ UNCHANGED <<in_tx, conn_in, header, cb_rx, taken>>

\* line 52-56: the response header takes the request's correlation_id and
\* (version, header, res) is written
StreamSend(c) ==
    /\ conn_at[c] = "send"
    /\ conn_out' = [conn_out EXCEPT ![c] = Append(@, header[c])]
    /\ conn_at' = [conn_at EXCEPT ![c] = "try_next"]
    /\ UNCHANGED <<in_tx, conn_in, header, cb_rx, taken>>

\* line 48, 58: the peer has closed the connection, try_next yields None
StreamEnd(c) ==
    /\ conn_at[c] = "try_next"
    /\ conn_in[c] = <<>>
    /\ conn_at' = [conn_at EXCEPT ![c] = "closed"]
    /\ UNCHANGED <<in_tx, conn_in, header, cb_rx, conn_out, taken>>

NextBroker ==
    \/ \E c \in Conns, id \in CorrIds :
          ClientSend(c, id) /\ UNCHANGED <<raftVars, kafkaVars>>
    \/ \E c \in Conns : StreamRead(c) /\ UNCHANGED <<raftVars, kafkaVars>>
    \/ \E i \in 1..NumConns, sent \in BOOLEAN :
          BrokerAnswer(i, sent) /\ UNCHANGED <<raftVars, kafkaVars>>
    \/ \E c \in Conns : StreamAwait(c) /\ UNCHANGED <<raftVars, kafkaVars>>
    \/ \E c \in Conns : StreamSend(c) /\ UNCHANGED <<raftVars, kafkaVars>>
    \/ \E c \in Conns : StreamEnd(c) /\ UNCHANGED <<raftVars, kafkaVars>>

SpecBroker == InitTcp /\ [][NextBroker]_vars

\* ======================= properties =======================

\* The command m is taken off the network in this step of the cluster.
Consumed(m) == m \in net /\ m \notin net'

\* (last_log_term, last_log_index) of the request is lexicographically
\* smaller than the last (term, index) of the local log l.
LogBehind(m, l) ==
    \/ m.last_log_term < LastTerm(l)
    \/ m.last_log_term = LastTerm(l) /\ m.last_log_index < LastIndex(l)

GrantedResponse(r) == r.mtype = "VoteResponse" /\ r.granted

\* C1: in a cluster of NumNodes nodes, no two nodes are Leader with the
\* same current_term.
C1_OneLeaderPerTerm ==
    \A a \in Nodes, b \in Nodes :
        (a # b /\ role[a] = "Leader" /\ role[b] = "Leader")
            => current_term[a] # current_term[b]

\* C2: no operation, a direct call of Raft::term included, lowers the
\* current_term of a node.
C2_TermMonotone ==
    [][\A n \in Nodes : current_term'[n] >= current_term[n]]_vars

\* C3: once voted_for is set, it changes (to another id or to none) only
\* in a step that strictly raises current_term.
C3_VoteChangesWithTerm ==
    [][\A n \in Nodes :
          (voted_for[n] # None /\ voted_for'[n] # voted_for[n])
              => current_term'[n] > current_term[n]]_vars

\* C4: a Follower grants a VoteRequest only if the request's term is at
\* least its current_term and it has no grant of that term out to another
\* candidate.
C4_FollowerGrant ==
    [][\A m \in net :
          (Consumed(m) /\ m.mtype = "VoteRequest" /\ role[m.to] = "Follower")
              => \A r \in reply' :
                    GrantedResponse(r) =>
                        /\ m.term >= current_term[m.to]
                        /\ \A r2 \in net :
                              (GrantedResponse(r2) /\ r2.from = r.from
                                  /\ r2.term = r.term) => r2.to = r.to]_vars

\* C5: a Follower answers a VoteRequest whose last log position is behind
\* its own log with granted = false and keeps voted_for.
C5_DenyStaleLog ==
    [][\A m \in net :
          (Consumed(m) /\ m.mtype = "VoteRequest" /\ role[m.to] = "Follower"
              /\ LogBehind(m, log[m.to]))
              => /\ \A r \in reply' : ~GrantedResponse(r)
                 /\ voted_for'[m.to] = voted_for[m.to]]_vars

\* C6: a node that handles a command with a term above its current_term
\* ends the step as Follower at that term with voted_for = none.
C6_HigherTermStepsDown ==
    [][\A m \in net :
          (Consumed(m) /\ m.term > current_term[m.to] /\ ~panicked'[m.to])
              => /\ current_term'[m.to] = m.term
                 /\ voted_for'[m.to] = None
                 /\ role'[m.to] = "Follower"]_vars

\* C7: Timeout applied to a Follower that knows another peer yields a
\* Candidate at current_term + 1 with voted_for = its own id.
C7_TimeoutToCandidate ==
    [][(FollowerTimeout(Self) /\ Range(cluster[Self]) # {Self})
          => /\ role'[Self] = "Candidate"
             /\ current_term'[Self] = current_term[Self] + 1
             /\ voted_for'[Self] = Self]_vars

\* C8: Timeout applied to a Follower at term 0 that is alone in its cluster
\* yields a Leader at current_term = 1 in that step.
C8_SingleNodeLeader ==
    [][(FollowerTimeout(Self) /\ cluster[Self] = <<Self>>
            /\ current_term[Self] = 0)
          => /\ role'[Self] = "Leader"
             /\ current_term'[Self] = 1]_vars

\* C9: a Candidate becomes Leader on a VoteResponse exactly when the
\* granted votes recorded, the new one included, reach quorum(N).
C9_LeaderAtQuorum ==
    [][\A m \in Inputs :
          CandidateVoteResponse(Self, m)
              => (role'[Self] = "Leader"
                    <=> Granted(vote(votes[Self], m.from, m.granted))
                            >= quorum(Len(cluster[Self])))]_vars

\* C10: a Candidate that handles Append or Heartbeat with term >= its
\* current_term becomes a Follower of the sender with the entries appended.
C10_CandidateAdoptsLeader ==
    [][\A m \in Inputs :
          ((CandidateAppendEntries(Self, m) \/ CandidateHeartbeat(Self, m))
              /\ m.term >= current_term[Self] /\ ~panicked'[Self])
              => /\ role'[Self] = "Follower"
                 /\ leader_id'[Self] = m.from
                 /\ log'[Self] = log[Self] \o m.entries]_vars

\* C11: a Candidate answers a VoteRequest whose term is not above its own
\* with granted = false and stays Candidate; on a higher term it ends the
\* step as Follower at the requester's term.
C11_CandidateVoteRequest ==
    [][\A m \in Inputs :
          CandidateVoteRequest(Self, m)
              => IF m.term <= current_term[Self]
                 THEN /\ reply' = {respond_vote(Self, m.from, FALSE)}
                      /\ role'[Self] = "Candidate"
                 ELSE /\ role'[Self] = "Follower"
                      /\ current_term'[Self] = m.term]_vars

\* C12: Timeout applied to a Candidate gives a Candidate at
\* current_term + 1 with voted_for = self and a tally holding only its
\* own vote.
C12_CandidateTimeoutRestarts ==
    [][(CandidateTimeout(Self) /\ last'.mtype = "Timeout")
          => /\ role'[Self] = "Candidate"
             /\ current_term'[Self] = current_term[Self] + 1
             /\ voted_for'[Self] = Self
             /\ votes'[Self] = vote(ElectionNew, Self, TRUE)]_vars

\* Some member is Leader, or a member has run into the term bound of the
\* model (behaviours that do are left out of C13).
LeaderOrBound ==
    \E n \in Members : role[n] = "Leader" \/ current_term[n] = MaxTerm

\* C13: under fair delivery and fair Timeout an even-sized cluster
\* eventually has a Leader, and no member stays Candidate forever.
C13_EventuallyLeader ==
    /\ <>LeaderOrBound
    /\ \A n \in Members : []<>(role[n] # "Candidate" \/ LeaderOrBound)

\* C14: a Follower that handles Append or Heartbeat with a term below its
\* current_term keeps leader_id, the election timer and the log.
C14_FollowerStaleAppend ==
    [][\A m \in Appends \cup Heartbeats :
          (m.term < current_term[Self]
              /\ (FollowerAppend(Self, m) \/ FollowerHeartbeat(Self, m)))
              => UNCHANGED <<leader_id, election_time, log>>]_vars

\* The indices of the log l run 1, 2, ... without a gap and its terms never
\* decrease.
WellFormed(l) ==
    /\ \A i \in 1..Len(l) : l[i].index = i
    /\ \A i \in 1..Len(l), j \in 1..Len(l) : i < j => l[i].term <= l[j].term

\* C15: the log of a node has gap-free, strictly increasing indices and
\* non-decreasing terms after any sequence of commands.
C15_LogWellFormed == \A n \in Nodes : WellFormed(log[n])

\* The log l holds an entry of term prev_log_term at prev_log_index (or
\* prev_log_index is 0, the position before the first entry).
PrevMatches(m, l) ==
    \/ m.prev_log_index = 0
    \/ /\ m.prev_log_index <= Len(l)
       /\ l[m.prev_log_index].term = m.prev_log_term

Min(a, b) == IF a < b THEN a ELSE b

\* C16: a Follower that handles an Append whose prev_log position matches
\* its log ends with the prefix up to prev_log_index followed by the
\* entries and commit_index = min(leader_commit, index of the last new
\* entry); on a mismatch it answers success = false and keeps its log.
C16_AppendConsistency ==
    [][\A m \in Inputs :
          (FollowerAppend(Self, m) /\ m.term >= current_term[Self])
              => IF PrevMatches(m, log[Self])
                 THEN /\ log'[Self] =
                            SubSeq(log[Self], 1, m.prev_log_index) \o m.entries
                      /\ commit_index'[Self] =
                            Min(m.leader_commit,
                                m.prev_log_index + Len(m.entries))
                 ELSE /\ log'[Self] = log[Self]
                      /\ \E r \in reply' :
                            r.mtype = "AppendResponse" /\ ~r.granted]_vars

\* C17: in every reachable state of a node,
\* last_applied <= commit_index <= index of the last entry of its log.
C17_CommitBounds ==
    \A n \in Nodes :
        /\ last_applied[n] <= commit_index[n]
        /\ commit_index[n] <= LastIndex(log[n])

\* A Follower has just taken entries, announced as committed by the
\* sender, into its log.
C17_Witness ==
    /\ last.mtype = "Append"
    /\ role[Self] = "Follower"
    /\ Len(log[Self]) > 0
    /\ leader_id[Self] # None

\* C18: a node is Leader exactly if its progress map is non-empty, and
\* only a Follower carries a leader_id.
C18_LeaderHasProgress ==
    \A n \in Nodes :
        /\ role[n] = "Leader" <=> progress[n] # {}
        /\ leader_id[n] # None => role[n] = "Follower"

\* C19: a Heartbeat applied to a Follower right after the same Heartbeat
\* was applied to it changes nothing but the election timer.
C19_HeartbeatIdempotent ==
    [][\A m \in Heartbeats :
          (FollowerHeartbeat(Self, m) /\ last'.again /\ ~panicked'[Self])
              => UNCHANGED <<role, current_term, voted_for, leader_id, log,
                             commit_index>>]_vars

\* The same Heartbeat has been applied to a Follower twice in a row and
\* both applications returned.
C19_Witness ==
    /\ last.mtype = "Heartbeat"
    /\ last.again
    /\ last.role = "Follower"
    /\ role[Self] = "Follower"
    /\ leader_id[Self] = last.from
    /\ ~panicked[Self]

\* C20: Tick applied to a Follower or a Candidate leaves the role and the
\* state of the node as they are and hands nothing to the rpc layer.
C20_TickNoop ==
    [][(last'.mtype = "Tick"
          /\ (FollowerNoop(Self) \/ CandidateTick(Self)
                 \/ CandidateTimeout(Self)))
          => /\ UNCHANGED <<nodeVars, cluster>>
             /\ reply' = {}]_vars

\* Tick has just been applied to a Candidate in the middle of an election.
C20_Witness ==
    /\ last.mtype = "Tick"
    /\ last.role = "Candidate"
    /\ role[Self] = "Candidate"
    /\ Granted(votes[Self]) = 1
    /\ current_term[Self] > 0

\* The commands a Follower has no arm of its own for, and Ping.
Ignored == {"Tick", "AddNode", "Noop", "Ping", "VoteResponse"}

\* C21: a command other than Append, Heartbeat, VoteRequest and Timeout
\* applied to a Follower returns a Follower with current_term, voted_for,
\* leader_id, log and commit_index as they were.
C21_FollowerIgnores ==
    [][(role[Self] = "Follower" /\ ~panicked[Self] /\ last'.mtype \in Ignored)
          => /\ role'[Self] = "Follower"
             /\ UNCHANGED <<current_term, voted_for, leader_id, log,
                            commit_index>>]_vars

\* A Follower that has been a Candidate and has a leader took a
\* VoteResponse.
C21_Witness ==
    /\ last.mtype = "VoteResponse"
    /\ last.role = "Follower"
    /\ role[Self] = "Follower"
    /\ voted_for[Self] = Self
    /\ leader_id[Self] # None

\* C22: a Timeout that makes a node with other peers Candidate hands
\* exactly one VoteRequest of the new term per other peer to the rpc layer.
C22_BroadcastVoteRequest ==
    [][(FollowerTimeout(Self) /\ role'[Self] = "Candidate")
          => \A d \in Range(cluster[Self]) \ {Self} :
                Cardinality({r \in reply' :
                                /\ r.mtype = "VoteRequest"
                                /\ r.to = d
                                /\ r.from = Self
                                /\ r.term = current_term'[Self]}) = 1]_vars

\* C23: a VoteResponse whose term differs from the Candidate's
\* current_term changes neither the tally nor the role.
C23_VoteResponseTerm ==
    [][\A m \in VoteResponses :
          (m.term # current_term[Self] /\ CandidateVoteResponse(Self, m))
              => UNCHANGED <<votes, role>>]_vars

\* C24: an Append or Heartbeat of a term lower than current_term leaves a
\* Candidate a Candidate with its term, voted_for, tally and log.
C24_CandidateStaleAppend ==
    [][(/\ role[Self] = "Candidate"
        /\ ~panicked[Self]
        /\ last'.mtype \in {"Append", "Heartbeat"}
        /\ last'.term < current_term[Self])
          => /\ role'[Self] = "Candidate"
             /\ UNCHANGED <<current_term, voted_for, votes, log>>]_vars

\* A Candidate of term 2 that holds its own vote took a heartbeat of
\* term 1 and is still waiting for votes.
C24_Witness ==
    /\ last.mtype = "Heartbeat"
    /\ last.role = "Candidate"
    /\ last.term = 1
    /\ role[Self] = "Candidate"
    /\ current_term[Self] = 2
    /\ votes[Self][Self] = "granted"

\* C25: the Candidate a Follower's Timeout produces holds its own vote and
\* no other, whatever was counted in an earlier candidacy.
C25_FreshTally ==
    [][(FollowerTimeout(Self) /\ role'[Self] = "Candidate")
          => votes'[Self] =
                [v \in Nodes |-> IF v = Self THEN "granted" ELSE "none"]]_vars

\* The second candidacy of a node: Candidate of term 2 straight after the
\* Timeout it took as a Follower.
C25_Witness ==
    /\ last.mtype = "Timeout"
    /\ last.role = "Follower"
    /\ role[Self] = "Candidate"
    /\ current_term[Self] = 2

\* C26: a VoteResponse that leaves the node Candidate sets the entry of its
\* sender to the answer it carries, the latest answer replacing an earlier
\* one, and touches no other entry; a granted answer of a voter already
\* counted as granted leaves the count of votes as it was.
C26_OneVotePerVoter ==
    [][(role[Self] = "Candidate" /\ last'.mtype = "VoteResponse")
          => \A m \in VoteResponses :
                (CandidateVoteResponse(Self, m) /\ role'[Self] = "Candidate")
                    => /\ votes'[Self][m.from] =
                             (IF m.granted THEN "granted" ELSE "denied")
                       /\ \A v \in Nodes \ {m.from} :
                             votes'[Self][v] = votes[Self][v]
                       /\ (m.granted /\ votes[Self][m.from] = "granted")
                             => CountVotes(votes'[Self]) =
                                   CountVotes(votes[Self])]_vars

\* A Candidate that still waits for votes after a peer's answer and holds
\* that peer's vote.
C26_Witness ==
    /\ last.mtype = "VoteResponse"
    /\ last.role = "Candidate"
    /\ role[Self] = "Candidate"
    /\ \E p \in Peers : votes[Self][p] = "granted"

\* C27: a VoteResponse that makes the election Defeated turns the
\* Candidate into a Follower of the same term and vote with no leader.
C27_DefeatedStepsDown ==
    [][(build = "raft" /\ role[Self] = "Candidate"
            /\ last'.mtype = "VoteResponse")
          => \A m \in VoteResponses :
                (/\ CandidateVoteResponse(Self, m)
                 /\ election_status(vote(votes[Self], m.from, m.granted),
                                     Len(cluster[Self])) = "Defeated")
                    => /\ role'[Self] = "Follower"
                       /\ leader_id'[Self] = None
                       /\ UNCHANGED <<current_term, voted_for>>]_vars

\* A node back to Follower after a VoteResponse it took as Candidate, its
\* vote for itself kept.
C27_Witness ==
    /\ build = "raft"
    /\ last.mtype = "VoteResponse"
    /\ last.role = "Candidate"
    /\ role[Self] = "Follower"
    /\ voted_for[Self] = Self
    /\ current_term[Self] > 0

\* l is k with at most MaxLog entries appended.
Extends(l, k) == Len(k) <= Len(l) /\ SubSeq(l, 1, Len(k)) = k

\* C28: a step that changes the role keeps the peer set, commit_index and
\* last_applied. A Candidate that becomes Follower or Leader keeps
\* current_term and voted_for, and its log but for the entries of the
\* Append that made it step down; a Follower that becomes Candidate or
\* Leader keeps its log, and its term and vote are the ones seek_election
\* sets on the state carried over.
C28_ConversionKeepsState ==
    [][(role'[Self] # role[Self])
          => /\ UNCHANGED <<cluster, commit_index, last_applied>>
             /\ role[Self] = "Candidate"
                   => /\ UNCHANGED <<current_term, voted_for>>
                      /\ IF last'.mtype = "Append"
                         THEN Extends(log'[Self], log[Self])
                         ELSE UNCHANGED log
             /\ role[Self] = "Follower"
                   => /\ UNCHANGED log
                      /\ voted_for'[Self] = Self
                      /\ current_term'[Self] =
                            current_term[Self] + (IF build = "raft" THEN 1 ELSE 0)]_vars

\* A Candidate with peers, a log entry and its own vote has become Leader
\* on a VoteResponse.
C28_Witness ==
    /\ last.mtype = "VoteResponse"
    /\ last.role = "Candidate"
    /\ role[Self] = "Leader"
    /\ voted_for[Self] = Self
    /\ current_term[Self] > 0
    /\ Len(log[Self]) > 0
    /\ Len(cluster[Self]) > 1

\* C29: every apply on a Follower or a Candidate returns, and the handle
\* returned is a Follower, a Candidate or a Leader.
C29_ApplyReturnsOk ==
    /\ ~panicked[Self]
    /\ role[Self] \in {"Follower", "Candidate", "Leader"}

\* C30: adding a node whose id the cluster already holds leaves the size
\* of the cluster, and the votes needed of it, as they were.
C30_AddPeerTwice ==
    [][\A p \in Nodes :
          (/\ p \in Range(cluster[Self])
           /\ \/ add_node_to_cluster(Self, p)
              \/ add_node_to_cluster_root(Self, p))
              => /\ Len(cluster'[Self]) = Len(cluster[Self])
                 /\ majority(Len(cluster'[Self])) = majority(Len(cluster[Self]))
                 /\ quorum(Len(cluster'[Self])) = quorum(Len(cluster[Self]))]_vars

\* C31: every response the read task takes from the stream finds its
\* callback in cbs: the read task never panics on an unknown correlation
\* id.
C31_CallbackRegistered == read # "panicked"

\* C32: on every connection a request is read only when the response to
\* the one before has been written, and the response headers written carry
\* the correlation ids of the requests read, in the order they were read.
C32_OneAtATime ==
    \A c \in Conns :
        /\ Len(conn_out[c]) <= Len(taken[c])
        /\ Len(taken[c]) <= Len(conn_out[c]) + 1
        /\ conn_at[c] = "try_next" => Len(conn_out[c]) = Len(taken[c])
        /\ conn_out[c] = SubSeq(taken[c], 1, Len(conn_out[c]))

\* A connection has written two responses with different correlation ids
\* while the client's next request was already waiting, and the other
\* connection has been answered in between.
C32_Witness ==
    \E c \in Conns, d \in Conns :
        /\ c # d
        /\ Len(conn_out[c]) >= 2
        /\ conn_out[c][1] # conn_out[c][2]
        /\ conn_in[c] # <<>>
        /\ conn_at[c] = "try_next"
        /\ Len(conn_out[d]) >= 1

====
